---- MODULE Spec2Model ----
(***************************************************************************)
(* Monthly budget / daily transaction balance engine of backend-appfree.   *)
(*                                                                         *)
(* The persisted state is the two tables monthly_budgets and               *)
(* daily_transactions.  Every service method is an async function; each    *)
(* `await` of a repository call is one atomic step of the request that     *)
(* runs it, and requests interleave between those steps.  Reads of the     *)
(* clients table (which no modelled operation writes) are folded into the  *)
(* step that follows them.                                                 *)
(*                                                                         *)
(* Units: money columns are decimal(10,2); the model holds them as an      *)
(* integer number of cents.  A percentage budgetAmount is held in          *)
(* hundredths of a percent for the same reason.                            *)
(***************************************************************************)
EXTENDS Integers, Sequences, FiniteSets, TLC

VARIABLES
    budgets,        \* monthly_budgets: budget id -> row
    transactions,   \* daily_transactions: transaction id -> row
    nextBudgetId,   \* next generated budget id
    nextTxId,       \* next generated transaction id
    proc,           \* per request: operation, position and local variables
    opsStarted,     \* number of requests started so far
    opLimit,        \* how many requests this run may start
    concurrent,     \* may requests overlap?
    pre,            \* history: the tables before the request (one at a time)
                    \*          or before all requests (overlapping)
    lastOp,         \* history: the createDailyTransaction that returned last
    rebased         \* history: budgets whose balance was reset under transactions

vars == <<budgets, transactions, nextBudgetId, nextTxId, proc, opsStarted,
          opLimit, concurrent, pre, lastOp, rebased>>

----------------------------------------------------------------------------
(* Bounds *)

NProcs == 2
MaxSeqOps == 2
MaxConcOps == 2
MaxFaultOps == 2
MaxTraceOps == 6
MaxDetailOps == 2

Procs == 1..NProcs

(* Inputs *)

\* rows of the clients table: client 1 earns 200.00, client 2 has no salary
Clients == {1, 2}

\* rows of the categories table: category k belongs to client k; a categoryId
\* of 0 stands for none (undefined in a request, NULL in a row)
Categories == {1, 2}
CategoryClient(k) == k
ClientSalary(c) == IF c = 1 THEN 20000 ELSE 0

INCOME == "income"
EXPENSE == "expense"
TransactionType == {INCOME, EXPENSE}

MkDate(y, m, d) == [y |-> y, m |-> m, d |-> d]
NoDate == MkDate(0, 0, 0)
Dates == {MkDate(2024, 1, 30), MkDate(2024, 1, 31), MkDate(2024, 2, 1), MkDate(2025, 1, 1)}
TxAmounts == {100, 250}
BudgetAmounts == {0, 5000}
Salaries == {0, 30000}

----------------------------------------------------------------------------
(* Pure helpers *)

\* Date.getFullYear()
GetFullYear(date) == date.y

\* Date.getMonth(): months are 0-indexed
GetMonth(date) == date.m - 1

\* variant: the month is taken as 0-indexed, new Date(year, month + 1, 0)
DaysInMonth_NextMonth(year, month) ==
    IF month \in {3, 5, 8, 10} THEN 30
    ELSE IF month # 1 THEN 31
    ELSE IF (year % 4 = 0 /\ year % 100 # 0) \/ year % 400 = 0 THEN 29
    ELSE 28

\* new Date(year, month, 0).getDate()
DaysInMonth(year, month) ==
    IF month \in {4, 6, 9, 11} THEN 30
    ELSE IF month # 2 THEN 31
    ELSE IF (year % 4 = 0 /\ year % 100 # 0) \/ year % 400 = 0 THEN 29
    ELSE 28

\* a non-negative quotient n/d stored in a decimal(10,2) column: rounded half up
RoundDiv(n, d) == (2 * n + d) \div (2 * d)

\* (monthlySalary * budgetAmount) / 100, salary in cents, percentage in
\* hundredths of a percent, result in cents
PercentOf(salary, pct) ==
    LET q == salary \div 100
        r == salary % 100
        a == q * pct
    IN  (a \div 100) + RoundDiv(100 * (a % 100) + r * pct, 10000)

\* actualBudgetAmount / budget.daysInMonth, in cents
DailyBudgetOf(actual, days) == RoundDiv(actual, days)

NoBudget ==
    [id |-> 0, clientId |-> 0, year |-> 0, month |-> 0, monthlySalary |-> 0,
     budgetAmount |-> 0, isPercentage |-> FALSE, dailyBudget |-> 0,
     remainingBalance |-> 0, daysInMonth |-> 0]

NoTransaction ==
    [id |-> 0, description |-> "", amount |-> 0, type |-> EXPENSE, date |-> NoDate,
     remainingBalanceAfterTransaction |-> 0, clientId |-> 0, categoryId |-> 0,
     monthlyBudgetId |-> 0]

\* repository.save(row): insert-or-update of the whole row by primary key
SaveRow(table, row) ==
    [i \in DOMAIN table \cup {row.id} |-> IF i = row.id THEN row ELSE table[i]]

\* repository.remove(row)
RemoveRow(table, id) == [i \in DOMAIN table \ {id} |-> table[i]]

\* variant: the year is left out of the where clause
BudgetsFor_IgnoresYear(clientId, year, month) ==
    {b \in DOMAIN budgets :
        /\ budgets[b].clientId = clientId
        /\ budgets[b].month = month}

\* findMonthlyBudgetByYearAndMonth: the rows findOne may return
BudgetsFor(clientId, year, month) ==
    {b \in DOMAIN budgets :
        /\ budgets[b].clientId = clientId
        /\ budgets[b].year = year
        /\ budgets[b].month = month}

IdleProc ==
    [op |-> "none", pc |-> "idle", result |-> "none",
     \* the error thrown inside the service method, "none" when nothing was
     raised |-> "none",
     \* arguments
     id |-> 0, clientId |-> 0, amount |-> 0, type |-> EXPENSE, date |-> NoDate,
     hasAmount |-> FALSE, hasType |-> FALSE, hasDate |-> FALSE,
     isPercentage |-> FALSE,
     hasDescription |-> FALSE, description |-> "", categoryId |-> 0,
     \* locals of the ledger methods
     transaction |-> NoTransaction, original |-> NoTransaction,
     monthChanged |-> FALSE,
     currentBudget |-> NoBudget, newBudget |-> NoBudget,
     \* getOrCreateMonthlyBudget frame
     gocClient |-> 0, gocYear |-> 0, gocMonth |-> 0, gocHasSalary |-> FALSE,
     gocSalary |-> 0, gocRet |-> "idle",
     gocBudget |-> NoBudget,
     \* updateRemainingBalance frame
     urbId |-> 0, urbAmount |-> 0, urbAdd |-> FALSE, urbRet |-> "idle",
     urbBudget |-> NoBudget,
     \* history: does the pending budget save reset remainingBalance?
     resets |-> FALSE]

NoOp == [id |-> 0, budgetId |-> 0, balanceBefore |-> 0]

----------------------------------------------------------------------------
(* Initial states *)

\* The tables start empty.  To keep runs short the model also starts from
\* three states that one-at-a-time requests reach from the empty tables:
\*   getOrCreateMonthlyBudget(1, 2024, 1); updateBudgetAmount(1, 50.00, fixed)
\*   getOrCreateMonthlyBudget(1, 2024, 1); updateBudgetAmount(1, 50, percentage)
\*   the first, then createDailyTransaction(1, 1.00, expense, 2024-01-30)
SeedBudget(isPct) ==
    LET actual == IF isPct THEN PercentOf(ClientSalary(1), 5000) ELSE 5000
    IN  [id |-> 1, clientId |-> 1, year |-> 2024, month |-> 1,
         monthlySalary |-> ClientSalary(1), budgetAmount |-> 5000,
         isPercentage |-> isPct, dailyBudget |-> DailyBudgetOf(actual, 31),
         remainingBalance |-> actual, daysInMonth |-> 31]

SeedTransaction ==
    [id |-> 1, description |-> "lunch", amount |-> 100, type |-> EXPENSE,
     date |-> MkDate(2024, 1, 30), remainingBalanceAfterTransaction |-> 4900,
     clientId |-> 1, categoryId |-> 0, monthlyBudgetId |-> 1]

InitTables ==
    \/ /\ budgets = <<>>
       /\ transactions = <<>>
       /\ nextBudgetId = 1
       /\ nextTxId = 1
    \/ /\ \E isPct \in BOOLEAN : budgets = <<SeedBudget(isPct)>>
       /\ transactions = <<>>
       /\ nextBudgetId = 2
       /\ nextTxId = 1
    \/ /\ budgets = <<[SeedBudget(FALSE) EXCEPT !.remainingBalance = 4900]>>
       /\ transactions = <<SeedTransaction>>
       /\ nextBudgetId = 2
       /\ nextTxId = 2

InitCommon ==
    /\ InitTables
    /\ proc = [p \in Procs |-> IdleProc]
    /\ opsStarted = 0
    /\ pre = [budgets |-> budgets, transactions |-> transactions]
    /\ lastOp = NoOp
    /\ rebased = {}

Init ==
    /\ InitCommon
    /\ concurrent = FALSE
    /\ opLimit = MaxSeqOps

InitConc ==
    /\ InitCommon
    /\ concurrent = TRUE
    /\ opLimit = MaxConcOps

InitFault ==
    /\ InitCommon
    /\ concurrent = FALSE
    /\ opLimit = MaxFaultOps

InitDetail ==
    /\ InitCommon
    /\ concurrent = FALSE
    /\ opLimit = MaxDetailOps

\* the empty tables only
InitTrace ==
    /\ budgets = <<>>
    /\ transactions = <<>>
    /\ nextBudgetId = 1
    /\ nextTxId = 1
    /\ proc = [p \in Procs |-> IdleProc]
    /\ opsStarted = 0
    /\ pre = [budgets |-> budgets, transactions |-> transactions]
    /\ lastOp = NoOp
    /\ rebased = {}
    /\ concurrent = FALSE
    /\ opLimit = MaxTraceOps

----------------------------------------------------------------------------
(* Request plumbing *)

Finished(r) == r.pc \in {"idle", "done"}

Quiescent == \A q \in Procs : Finished(proc[q])

\* a request may arrive on a free slot; one at a time unless requests overlap
CanStart(p) ==
    /\ Finished(proc[p])
    /\ opsStarted < opLimit
    /\ concurrent \/ (p = 1 /\ Quiescent)

\* the budget row a ledger request worked on
BudgetOf(r) == r.currentBudget.id

\* history kept when a request arrives
Arrive(p) ==
    /\ opsStarted' = opsStarted + 1
    /\ pre' = IF concurrent THEN pre
              ELSE [budgets |-> budgets, transactions |-> transactions]
    /\ lastOp' = IF ~concurrent /\ proc[p].op = "create" /\ proc[p].result = "ok"
                 THEN [id |-> proc[p].id, budgetId |-> BudgetOf(proc[p]),
                       balanceBefore |->
                           IF BudgetOf(proc[p]) \in DOMAIN pre.budgets
                           THEN pre.budgets[BudgetOf(proc[p])].remainingBalance
                           ELSE 0]
                 ELSE NoOp

Begin(p, op) == [IdleProc EXCEPT !.op = op]

\* Errors.  An AppError is named by its status; QueryFailedError stands for
\* whatever a rejected repository call throws, which is no AppError.
AppErrors == {"400", "403", "404", "500"}
QueryFailedError == "QueryFailedError"

\* variant: the catch rethrows whatever it caught
ServiceCatch_Rethrows(error) == error

\* the catch of every service method:
\*   if (error instanceof AppError) throw error;
\*   throw new AppError("Failed to ...", 500)
ServiceCatch(error) == IF error \in AppErrors THEN error ELSE "500"

\* the request r ends with what its method's catch throws for error
Fail(r, error) ==
    [r EXCEPT !.pc = "done", !.raised = error, !.result = ServiceCatch(error)]

\* an error is thrown inside the method of request p; nested catches see an
\* AppError from the innermost one on and rethrow it
Throw(p, error) == [proc EXCEPT ![p] = Fail(proc[p], error)]

\* call this.monthlyBudgetService.getOrCreateMonthlyBudget(clientId, year, month)
CallGoc(r, clientId, year, month, ret) ==
    [r EXCEPT !.pc = "goc_find", !.gocClient = clientId, !.gocYear = year,
              !.gocMonth = month, !.gocHasSalary = FALSE, !.gocSalary = 0,
              !.gocRet = ret]

\* call this.monthlyBudgetService.updateRemainingBalance(budgetId, amount, isAddition)
CallUrb(r, budgetId, amount, isAddition, ret) ==
    [r EXCEPT !.pc = "urb_read", !.urbId = budgetId, !.urbAmount = amount,
              !.urbAdd = isAddition, !.urbRet = ret]

----------------------------------------------------------------------------
(* DailyTransactionService: the code between two awaits *)

\* remainingBalanceAfterTransaction as create and update compute it from a
\* budget object they hold
SnapshotOf(budget, amount, type) ==
    IF type = EXPENSE THEN budget.remainingBalance - amount
    ELSE budget.remainingBalance + amount

\* variant: the year comparison is forgotten
MonthChanged_MonthOnly(hasDate, date, originalDate) ==
    hasDate /\ GetMonth(date) # GetMonth(originalDate)

\* date && (date.getMonth() !== originalDate.getMonth()
\*          || date.getFullYear() !== originalDate.getFullYear())
MonthChanged(hasDate, date, originalDate) ==
    /\ hasDate
    /\ \/ GetMonth(date) # GetMonth(originalDate)
       \/ GetFullYear(date) # GetFullYear(originalDate)

NewAmount(r) == IF r.hasAmount THEN r.amount ELSE r.original.amount
NewType(r) == IF r.hasType THEN r.type ELSE r.original.type

\* variant: the new effect always goes to the current budget
AfterReversal_SameBudget(r) ==
    CallUrb(r, r.currentBudget.id, NewAmount(r), NewType(r) = INCOME, "update_applied")

\* updateDailyTransaction once the original effect is reversed: the new effect
\* goes to the budget of the new month, or to the current budget
AfterReversal(r) ==
    IF r.monthChanged
    THEN CallGoc(r, r.transaction.clientId, GetFullYear(r.date),
                 GetMonth(r.date) + 1, "update_got_budget")
    ELSE CallUrb(r, r.currentBudget.id, NewAmount(r), NewType(r) = INCOME,
                 "update_applied")

\* The synchronous code a request runs when a service call returns to it, up
\* to its next await.
Continue(r) ==
    CASE r.pc = "create_got_budget" ->
           \* const monthlyBudget = await getOrCreateMonthlyBudget(...)
           [r EXCEPT !.pc = "create_insert", !.currentBudget = r.gocBudget]
      [] r.pc = "update_reversed" -> AfterReversal(r)
      [] r.pc = "update_got_budget" ->
           CallUrb([r EXCEPT !.newBudget = r.gocBudget,
                             !.transaction.monthlyBudgetId = r.gocBudget.id],
                   r.gocBudget.id, NewAmount(r), NewType(r) = INCOME, "update_moved")
      [] r.pc = "update_moved" ->
           [r EXCEPT !.pc = "update_save",
                     !.transaction.remainingBalanceAfterTransaction =
                         SnapshotOf(r.newBudget, NewAmount(r), NewType(r)),
                     !.transaction.amount = NewAmount(r)]
      [] r.pc = "update_applied" ->
           [r EXCEPT !.pc = "update_save",
                     !.transaction.remainingBalanceAfterTransaction =
                         SnapshotOf(r.currentBudget, NewAmount(r), NewType(r)),
                     !.transaction.amount = NewAmount(r)]
      [] r.pc = "done" -> [r EXCEPT !.result = "ok"]
      [] OTHER -> r

----------------------------------------------------------------------------
(* MonthlyBudgetService *)

\* getOrCreateMonthlyBudget: findClientById, findMonthlyBudgetByYearAndMonth
GocFind(p) ==
    /\ proc[p].pc = "goc_find"
    /\ LET r == proc[p]
           found == BudgetsFor(r.gocClient, r.gocYear, r.gocMonth)
       IN  IF r.gocClient \notin Clients
           THEN proc' = Throw(p, "404")
           ELSE IF found = {}
           THEN proc' = [proc EXCEPT ![p].pc = "goc_create"]
           ELSE \E b \in found :
                  proc' = [proc EXCEPT ![p] =
                             Continue([r EXCEPT !.pc = r.gocRet, !.gocBudget = budgets[b]])]
    /\ UNCHANGED <<budgets, transactions, nextBudgetId, nextTxId, opsStarted,
                   opLimit, concurrent, pre, lastOp, rebased>>

\* the row getOrCreateMonthlyBudget passes to createMonthlyBudget
FreshBudget(id, clientId, year, month, hasSalary, salary) ==
    [id |-> id, clientId |-> clientId, year |-> year, month |-> month,
     monthlySalary |-> IF hasSalary /\ salary # 0 THEN salary ELSE ClientSalary(clientId),
     budgetAmount |-> 0, isPercentage |-> FALSE, dailyBudget |-> 0,
     remainingBalance |-> 0, daysInMonth |-> DaysInMonth(year, month)]

\* getOrCreateMonthlyBudget: createMonthlyBudget
GocCreate(p) ==
    /\ proc[p].pc = "goc_create"
    /\ LET r == proc[p]
           row == FreshBudget(nextBudgetId, r.gocClient, r.gocYear, r.gocMonth,
                              r.gocHasSalary, r.gocSalary)
       IN  /\ budgets' = SaveRow(budgets, row)
           /\ nextBudgetId' = nextBudgetId + 1
           /\ proc' = [proc EXCEPT ![p] =
                         Continue([r EXCEPT !.pc = r.gocRet, !.gocBudget = row])]
    /\ UNCHANGED <<transactions, nextTxId, opsStarted, opLimit, concurrent,
                   pre, lastOp, rebased>>

\* variant: the isAddition branch is forgotten
ApplyDelta_AlwaysSubtract(budget, amount, isAddition) ==
    [budget EXCEPT !.remainingBalance = @ - amount]

\* budget.remainingBalance += amount / -= amount
ApplyDelta(budget, amount, isAddition) ==
    [budget EXCEPT !.remainingBalance =
        IF isAddition THEN @ + amount ELSE @ - amount]

\* updateRemainingBalance: getMonthlyBudgetById, then the arithmetic
UrbRead(p) ==
    /\ proc[p].pc = "urb_read"
    /\ LET r == proc[p]
       IN  IF r.urbId \notin DOMAIN budgets
           THEN proc' = Throw(p, "404")
           ELSE proc' = [proc EXCEPT ![p].pc = "urb_save",
                           ![p].urbBudget = ApplyDelta(budgets[r.urbId], r.urbAmount, r.urbAdd)]
    /\ UNCHANGED <<budgets, transactions, nextBudgetId, nextTxId, opsStarted,
                   opLimit, concurrent, pre, lastOp, rebased>>

\* updateRemainingBalance: updateMonthlyBudget(budget)
UrbSave(p) ==
    /\ proc[p].pc = "urb_save"
    /\ budgets' = SaveRow(budgets, proc[p].urbBudget)
    /\ proc' = [proc EXCEPT ![p] = Continue([proc[p] EXCEPT !.pc = proc[p].urbRet])]
    /\ UNCHANGED <<transactions, nextBudgetId, nextTxId, opsStarted, opLimit,
                   concurrent, pre, lastOp, rebased>>

\* variant: the recalculation is not limited to percentage budgets
WithSalary_AlwaysResets(budget, monthlySalary) ==
    LET newBudgetAmount == PercentOf(monthlySalary, budget.budgetAmount)
    IN  [budget EXCEPT !.monthlySalary = monthlySalary,
                       !.dailyBudget = DailyBudgetOf(newBudgetAmount, budget.daysInMonth),
                       !.remainingBalance = newBudgetAmount]

\* variant: the recalculation forgets dailyBudget
WithSalary_KeepsDailyBudget(budget, monthlySalary) ==
    IF budget.isPercentage /\ budget.budgetAmount > 0
    THEN [budget EXCEPT !.monthlySalary = monthlySalary,
                        !.remainingBalance = PercentOf(monthlySalary, budget.budgetAmount)]
    ELSE [budget EXCEPT !.monthlySalary = monthlySalary]

\* updateMonthlySalary after getMonthlyBudgetById
WithSalary(budget, monthlySalary) ==
    IF budget.isPercentage /\ budget.budgetAmount > 0
    THEN LET newBudgetAmount == PercentOf(monthlySalary, budget.budgetAmount)
         IN  [budget EXCEPT !.monthlySalary = monthlySalary,
                            !.dailyBudget = DailyBudgetOf(newBudgetAmount, budget.daysInMonth),
                            !.remainingBalance = newBudgetAmount]
    ELSE [budget EXCEPT !.monthlySalary = monthlySalary]

\* variant: remainingBalance is left alone
WithBudgetAmount_KeepsBalance(budget, budgetAmount, isPercentage) ==
    LET actualBudgetAmount ==
            IF isPercentage THEN PercentOf(budget.monthlySalary, budgetAmount)
            ELSE budgetAmount
    IN  [budget EXCEPT !.budgetAmount = budgetAmount,
                       !.isPercentage = isPercentage,
                       !.dailyBudget = DailyBudgetOf(actualBudgetAmount, budget.daysInMonth)]

\* updateBudgetAmount after getMonthlyBudgetById and the range check
WithBudgetAmount(budget, budgetAmount, isPercentage) ==
    LET actualBudgetAmount ==
            IF isPercentage THEN PercentOf(budget.monthlySalary, budgetAmount)
            ELSE budgetAmount
    IN  [budget EXCEPT !.budgetAmount = budgetAmount,
                       !.isPercentage = isPercentage,
                       !.dailyBudget = DailyBudgetOf(actualBudgetAmount, budget.daysInMonth),
                       !.remainingBalance = actualBudgetAmount]

\* variant: the bounds 0 and 100 are refused too
InvalidRange_Exclusive(budgetAmount, isPercentage) ==
    isPercentage /\ (budgetAmount <= 0 \/ budgetAmount >= 10000)

\* if (isPercentage) { if (budgetAmount < 0 || budgetAmount > 100) throw ... }
InvalidRange(budgetAmount, isPercentage) ==
    isPercentage /\ (budgetAmount < 0 \/ budgetAmount > 10000)

StartGetOrCreate(p, clientId, year, month, hasSalary, salary) ==
    /\ CanStart(p)
    /\ proc' = [proc EXCEPT ![p] =
                  [CallGoc(Begin(p, "getOrCreate"), clientId, year, month, "done")
                     EXCEPT !.gocHasSalary = hasSalary, !.gocSalary = salary]]
    /\ Arrive(p)
    /\ UNCHANGED <<budgets, transactions, nextBudgetId, nextTxId, opLimit,
                   concurrent, rebased>>

StartUpdateRemainingBalance(p, budgetId, amount, isAddition) ==
    /\ CanStart(p)
    /\ proc' = [proc EXCEPT ![p] =
                  CallUrb([Begin(p, "updateRemainingBalance") EXCEPT !.id = budgetId],
                          budgetId, amount, isAddition, "done")]
    /\ Arrive(p)
    /\ UNCHANGED <<budgets, transactions, nextBudgetId, nextTxId, opLimit,
                   concurrent, rebased>>

\* updateMonthlySalary up to its save
StartUpdateMonthlySalary(p, budgetId, monthlySalary) ==
    /\ CanStart(p)
    /\ LET r == [Begin(p, "updateMonthlySalary") EXCEPT !.id = budgetId,
                    !.amount = monthlySalary,
                    !.resets = /\ budgetId \in DOMAIN budgets
                               /\ budgets[budgetId].isPercentage
                               /\ budgets[budgetId].budgetAmount > 0]
       IN  IF budgetId \notin DOMAIN budgets
           THEN proc' = [proc EXCEPT ![p] = Fail(r, "404")]
           ELSE proc' = [proc EXCEPT ![p] =
                           [r EXCEPT !.pc = "budget_save",
                                     !.currentBudget = WithSalary(budgets[budgetId], monthlySalary)]]
    /\ Arrive(p)
    /\ UNCHANGED <<budgets, transactions, nextBudgetId, nextTxId, opLimit,
                   concurrent, rebased>>

\* updateBudgetAmount up to its save
StartUpdateBudgetAmount(p, budgetId, budgetAmount, isPercentage) ==
    /\ CanStart(p)
    /\ LET r == [Begin(p, "updateBudgetAmount") EXCEPT !.id = budgetId,
                    !.amount = budgetAmount, !.isPercentage = isPercentage,
                    !.resets = TRUE]
       IN  IF budgetId \notin DOMAIN budgets
           THEN proc' = [proc EXCEPT ![p] = Fail(r, "404")]
           ELSE IF InvalidRange(budgetAmount, isPercentage)
           THEN proc' = [proc EXCEPT ![p] = Fail(r, "400")]
           ELSE proc' = [proc EXCEPT ![p] =
                           [r EXCEPT !.pc = "budget_save",
                                     !.currentBudget =
                                         WithBudgetAmount(budgets[budgetId], budgetAmount, isPercentage)]]
    /\ Arrive(p)
    /\ UNCHANGED <<budgets, transactions, nextBudgetId, nextTxId, opLimit,
                   concurrent, rebased>>

\* updateMonthlySalary / updateBudgetAmount: updateMonthlyBudget(budget)
BudgetSave(p) ==
    /\ proc[p].pc = "budget_save"
    /\ budgets' = SaveRow(budgets, proc[p].currentBudget)
    /\ proc' = [proc EXCEPT ![p].pc = "done", ![p].result = "ok"]
    /\ rebased' = IF /\ proc[p].resets
                     /\ \E t \in DOMAIN transactions :
                           transactions[t].monthlyBudgetId = proc[p].currentBudget.id
                  THEN rebased \cup {proc[p].currentBudget.id}
                  ELSE rebased
    /\ UNCHANGED <<transactions, nextBudgetId, nextTxId, opsStarted, opLimit,
                   concurrent, pre, lastOp>>

\* deleteMonthlyBudget up to its delete
StartDeleteMonthlyBudget(p, budgetId) ==
    /\ CanStart(p)
    /\ LET r == [Begin(p, "deleteMonthlyBudget") EXCEPT !.id = budgetId]
       IN  IF budgetId \notin DOMAIN budgets
           THEN proc' = [proc EXCEPT ![p] = Fail(r, "404")]
           ELSE proc' = [proc EXCEPT ![p] =
                           [r EXCEPT !.pc = "budget_remove",
                                     !.currentBudget = budgets[budgetId]]]
    /\ Arrive(p)
    /\ UNCHANGED <<budgets, transactions, nextBudgetId, nextTxId, opLimit,
                   concurrent, rebased>>

\* deleteMonthlyBudget: the repository's deleteMonthlyBudget(budget).  The
\* migration's foreign key deletes the budget's transactions with it (ON DELETE
\* CASCADE); the foreign key of a schema synchronized from the entities has no
\* such rule, and the delete of a referenced budget is refused.
BudgetRemove(p) ==
    /\ proc[p].pc = "budget_remove"
    /\ LET b == proc[p].currentBudget.id
           kept == {t \in DOMAIN transactions : transactions[t].monthlyBudgetId # b}
       IN  \/ /\ budgets' = RemoveRow(budgets, b)
              /\ transactions' = [t \in kept |-> transactions[t]]
              /\ proc' = [proc EXCEPT ![p].pc = "done", ![p].result = "ok"]
           \/ /\ kept # DOMAIN transactions
              /\ proc' = Throw(p, QueryFailedError)
              /\ UNCHANGED <<budgets, transactions>>
    /\ UNCHANGED <<nextBudgetId, nextTxId, opsStarted, opLimit, concurrent,
                   pre, lastOp, rebased>>

----------------------------------------------------------------------------
(* DailyTransactionService *)

\* variant: every category id is taken as found
findCategoryById_Any(categoryId) == TRUE

\* findCategoryById(categoryId) returns a row
findCategoryById(categoryId) == categoryId \in Categories

\* createDailyTransaction up to the lookup inside getOrCreateMonthlyBudget
StartCreateWith(p, clientId, amount, type, date, description, categoryId) ==
    /\ CanStart(p)
    /\ LET r == [Begin(p, "create") EXCEPT !.clientId = clientId, !.amount = amount,
                                           !.type = type, !.date = date,
                                           !.hasDescription = TRUE,
                                           !.description = description,
                                           !.categoryId = categoryId]
       IN  IF clientId \notin Clients
           THEN proc' = [proc EXCEPT ![p] = Fail(r, "404")]
           ELSE IF categoryId # 0 /\ ~findCategoryById(categoryId)
           THEN proc' = [proc EXCEPT ![p] = Fail(r, "404")]
           ELSE IF categoryId # 0 /\ CategoryClient(categoryId) # clientId
           THEN proc' = [proc EXCEPT ![p] = Fail(r, "403")]
           ELSE proc' = [proc EXCEPT ![p] =
                           CallGoc(r, clientId, GetFullYear(date), GetMonth(date) + 1,
                                   "create_got_budget")]
    /\ Arrive(p)
    /\ UNCHANGED <<budgets, transactions, nextBudgetId, nextTxId, opLimit,
                   concurrent, rebased>>

\* createDailyTransaction without a category
StartCreate(p, clientId, amount, type, date) ==
    StartCreateWith(p, clientId, amount, type, date, "lunch", 0)

\* the row createDailyTransaction passes to the repository
NewTransaction(id, r) ==
    [id |-> id, description |-> r.description, amount |-> r.amount, type |-> r.type,
     date |-> r.date,
     remainingBalanceAfterTransaction |-> SnapshotOf(r.currentBudget, r.amount, r.type),
     clientId |-> r.clientId, categoryId |-> r.categoryId,
     monthlyBudgetId |-> r.currentBudget.id]

\* createDailyTransaction: the repository's createDailyTransaction
CreateInsert(p) ==
    /\ proc[p].pc = "create_insert"
    /\ LET r == proc[p]
           row == NewTransaction(nextTxId, r)
       IN  /\ transactions' = SaveRow(transactions, row)
           /\ nextTxId' = nextTxId + 1
           /\ proc' = [proc EXCEPT ![p] =
                         CallUrb([r EXCEPT !.transaction = row, !.id = row.id],
                                 r.currentBudget.id, r.amount, r.type = INCOME, "done")]
    /\ UNCHANGED <<budgets, nextBudgetId, opsStarted, opLimit, concurrent,
                   pre, lastOp, rebased>>

\* variant: the balance is recomputed on every update
NeedsBalanceUpdate_Always(hasAmount, hasType, monthChanged) == TRUE

\* if (amount !== undefined || type !== undefined || monthChanged)
NeedsBalanceUpdate(hasAmount, hasType, monthChanged) ==
    hasAmount \/ hasType \/ monthChanged

\* updateDailyTransaction up to its first budget access (or to its save)
StartUpdateWith(p, id, hasAmount, amount, hasType, type, hasDate, date, hasDescription, description, categoryId) ==
    /\ CanStart(p)
    /\ LET r == [Begin(p, "update") EXCEPT !.id = id,
                    !.hasAmount = hasAmount, !.amount = amount,
                    !.hasType = hasType, !.type = type,
                    !.hasDate = hasDate, !.date = date,
                    !.hasDescription = hasDescription, !.description = description,
                    !.categoryId = categoryId]
       IN  IF id \notin DOMAIN transactions
           THEN proc' = [proc EXCEPT ![p] = Fail(r, "404")]
           ELSE LET row == transactions[id]
                    changed == MonthChanged(hasDate, date, row.date)
                    newCategory == categoryId # 0 /\ categoryId # row.categoryId
                    t == [row EXCEPT !.categoryId = IF newCategory THEN categoryId ELSE @,
                                     !.description = IF hasDescription THEN description ELSE @,
                                     !.type = IF hasType THEN type ELSE @,
                                     !.date = IF hasDate THEN date ELSE @]
                IN  IF newCategory /\ ~findCategoryById(categoryId)
                    THEN proc' = [proc EXCEPT ![p] =
                                    Fail([r EXCEPT !.clientId = row.clientId, !.original = row,
                                                   !.transaction = row], "404")]
                    ELSE proc' = [proc EXCEPT ![p] =
                               [r EXCEPT !.clientId = row.clientId,
                                         !.original = row, !.transaction = t,
                                         !.monthChanged = changed,
                                         !.pc = IF NeedsBalanceUpdate(hasAmount, hasType, changed)
                                                THEN "update_find_budget"
                                                ELSE "update_save"]]
    /\ Arrive(p)
    /\ UNCHANGED <<budgets, transactions, nextBudgetId, nextTxId, opLimit,
                   concurrent, rebased>>

\* updateDailyTransaction without description and category
StartUpdate(p, id, hasAmount, amount, hasType, type, hasDate, date) ==
    StartUpdateWith(p, id, hasAmount, amount, hasType, type, hasDate, date,
                    FALSE, "", 0)

\* updateDailyTransaction: findMonthlyBudgetById(transaction.monthlyBudgetId)
UpdateFindBudget(p) ==
    /\ proc[p].pc = "update_find_budget"
    /\ LET r == proc[p]
           b == r.transaction.monthlyBudgetId
       IN  IF b \notin DOMAIN budgets
           THEN proc' = Throw(p, "404")
           ELSE proc' = [proc EXCEPT ![p] =
                           CallUrb([r EXCEPT !.currentBudget = budgets[b]],
                                   b, r.original.amount, r.original.type # INCOME,
                                   "update_reversed")]
    /\ UNCHANGED <<budgets, transactions, nextBudgetId, nextTxId, opsStarted,
                   opLimit, concurrent, pre, lastOp, rebased>>

\* variant: the save also brings the snapshots of the budget's other rows up
\* to the budget's balance
UpdateSave_Resnapshots(p) ==
    /\ proc[p].pc = "update_save"
    /\ LET row == proc[p].transaction
           b == row.monthlyBudgetId
           saved == SaveRow(transactions, row)
       IN  transactions' =
              [t \in DOMAIN saved |->
                  IF t # row.id /\ saved[t].monthlyBudgetId = b /\ b \in DOMAIN budgets
                  THEN [saved[t] EXCEPT !.remainingBalanceAfterTransaction =
                                            budgets[b].remainingBalance]
                  ELSE saved[t]]
    /\ proc' = [proc EXCEPT ![p].pc = "done", ![p].result = "ok"]
    /\ UNCHANGED <<budgets, nextBudgetId, nextTxId, opsStarted, opLimit,
                   concurrent, pre, lastOp, rebased>>

\* updateDailyTransaction: the repository's updateDailyTransaction(transaction)
UpdateSave(p) ==
    /\ proc[p].pc = "update_save"
    /\ transactions' = SaveRow(transactions, proc[p].transaction)
    /\ proc' = [proc EXCEPT ![p].pc = "done", ![p].result = "ok"]
    /\ UNCHANGED <<budgets, nextBudgetId, nextTxId, opsStarted, opLimit,
                   concurrent, pre, lastOp, rebased>>

\* deleteDailyTransaction up to its budget lookup
StartDelete(p, id) ==
    /\ CanStart(p)
    /\ LET r == [Begin(p, "delete") EXCEPT !.id = id]
       IN  IF id \notin DOMAIN transactions
           THEN proc' = [proc EXCEPT ![p] = Fail(r, "404")]
           ELSE proc' = [proc EXCEPT ![p] =
                           [r EXCEPT !.pc = "delete_find_budget",
                                     !.clientId = transactions[id].clientId,
                                     !.original = transactions[id],
                                     !.transaction = transactions[id]]]
    /\ Arrive(p)
    /\ UNCHANGED <<budgets, transactions, nextBudgetId, nextTxId, opLimit,
                   concurrent, rebased>>

\* deleteDailyTransaction: findMonthlyBudgetById(transaction.monthlyBudgetId)
DeleteFindBudget(p) ==
    /\ proc[p].pc = "delete_find_budget"
    /\ LET r == proc[p]
           b == r.transaction.monthlyBudgetId
       IN  IF b \notin DOMAIN budgets
           THEN proc' = Throw(p, "404")
           ELSE proc' = [proc EXCEPT ![p] =
                           CallUrb([r EXCEPT !.currentBudget = budgets[b]],
                                   b, r.transaction.amount, r.transaction.type # INCOME,
                                   "delete_remove")]
    /\ UNCHANGED <<budgets, transactions, nextBudgetId, nextTxId, opsStarted,
                   opLimit, concurrent, pre, lastOp, rebased>>

\* variant: a budget that loses its last transaction is deleted with it
DeleteRemove_DropsEmptyBudget(p) ==
    /\ proc[p].pc = "delete_remove"
    /\ transactions' = RemoveRow(transactions, proc[p].transaction.id)
    /\ budgets' = IF \A t \in DOMAIN transactions' :
                        transactions'[t].monthlyBudgetId # proc[p].transaction.monthlyBudgetId
                  THEN RemoveRow(budgets, proc[p].transaction.monthlyBudgetId)
                  ELSE budgets
    /\ proc' = [proc EXCEPT ![p].pc = "done", ![p].result = "ok"]
    /\ UNCHANGED <<nextBudgetId, nextTxId, opsStarted, opLimit,
                   concurrent, pre, lastOp, rebased>>

\* deleteDailyTransaction: the repository's deleteDailyTransaction(transaction)
DeleteRemove(p) ==
    /\ proc[p].pc = "delete_remove"
    /\ transactions' = RemoveRow(transactions, proc[p].transaction.id)
    /\ proc' = [proc EXCEPT ![p].pc = "done", ![p].result = "ok"]
    /\ UNCHANGED <<budgets, nextBudgetId, nextTxId, opsStarted, opLimit,
                   concurrent, pre, lastOp, rebased>>

----------------------------------------------------------------------------
(* DailyTransactionController *)

\* variant: the minimum is 0
ValidAmount_AllowsZero(amount) == amount >= 0

\* transactionValidation: body("amount").isFloat({ min: 0.01 })
ValidAmount(amount) == amount >= 1

\* if (!errors.isEmpty()) return res.status(400).json(...)
Reject(p, op, amount) ==
    /\ CanStart(p)
    /\ proc' = [proc EXCEPT ![p] =
                  [Begin(p, op) EXCEPT !.amount = amount, !.hasAmount = TRUE,
                                       !.pc = "done", !.result = "400"]]
    /\ Arrive(p)
    /\ UNCHANGED <<budgets, transactions, nextBudgetId, nextTxId, opLimit,
                   concurrent, rebased>>

\* POST /: the validation result, then createDailyTransaction
ControllerCreate(p, clientId, amount, type, date) ==
    IF ValidAmount(amount)
    THEN StartCreate(p, clientId, amount, type, date)
    ELSE Reject(p, "create", amount)

\* PUT /:id: the validation result, then updateDailyTransaction
ControllerUpdate(p, id, hasAmount, amount, hasType, type, hasDate, date) ==
    IF hasAmount => ValidAmount(amount)
    THEN StartUpdate(p, id, hasAmount, amount, hasType, type, hasDate, date)
    ELSE Reject(p, "update", amount)

----------------------------------------------------------------------------
(* Read-only queries of the daily transactions repository *)

\* a date is not after another
DateLE(d1, d2) ==
    \/ d1.y < d2.y
    \/ d1.y = d2.y /\ d1.m < d2.m
    \/ d1.y = d2.y /\ d1.m = d2.m /\ d1.d <= d2.d

\* SUM(transaction.amount) over the selected rows; result.total ? ... : 0
RECURSIVE SumAmounts(_)
SumAmounts(ts) ==
    IF ts = {} THEN 0
    ELSE LET t == CHOOSE x \in ts : TRUE
         IN  transactions[t].amount + SumAmounts(ts \ {t})

getDailyTransactionsSumByDate(clientId, date) ==
    SumAmounts({t \in DOMAIN transactions :
                  /\ transactions[t].clientId = clientId
                  /\ transactions[t].date = date
                  /\ transactions[t].type = EXPENSE})

\* variant: the last day of the month is left out
getDailyTransactionsSumByMonth_EndExclusive(clientId, year, month) ==
    LET startDate == MkDate(year, month, 1)
        endDate == MkDate(year, month, DaysInMonth(year, month))
    IN  SumAmounts({t \in DOMAIN transactions :
                      /\ transactions[t].clientId = clientId
                      /\ DateLE(startDate, transactions[t].date)
                      /\ DateLE(transactions[t].date, endDate)
                      /\ transactions[t].date # endDate
                      /\ transactions[t].type = EXPENSE})

\* startDate = new Date(year, month - 1, 1), endDate = new Date(year, month, 0),
\* transaction.date BETWEEN startDate AND endDate
getDailyTransactionsSumByMonth(clientId, year, month) ==
    LET startDate == MkDate(year, month, 1)
        endDate == MkDate(year, month, DaysInMonth(year, month))
    IN  SumAmounts({t \in DOMAIN transactions :
                      /\ transactions[t].clientId = clientId
                      /\ DateLE(startDate, transactions[t].date)
                      /\ DateLE(transactions[t].date, endDate)
                      /\ transactions[t].type = EXPENSE})

----------------------------------------------------------------------------
(* Failing repository calls *)

\* a repository call rejects with an error that is no AppError: the service's
\* catch logs it and throws AppError(..., 500); nothing is rolled back
PersistFail(p) ==
    /\ ~Finished(proc[p])
    /\ proc' = Throw(p, QueryFailedError)
    /\ UNCHANGED <<budgets, transactions, nextBudgetId, nextTxId, opsStarted,
                   opLimit, concurrent, pre, lastOp, rebased>>

----------------------------------------------------------------------------
(* Specifications *)

\* Requests, one at a time.  The PUT route's validation makes amount, type and
\* date mandatory; the service also accepts partial updates.  Amounts of 0 and
\* below are refused by the routes' validation.
Jan30 == MkDate(2024, 1, 30)
Feb1 == MkDate(2024, 2, 1)

CreateArgs ==
    {<<1, a, t, Jan30>> : a \in TxAmounts, t \in TransactionType}
        \cup {<<1, 100, EXPENSE, Feb1>>, <<1, 250, INCOME, Feb1>>,
              <<1, 100, EXPENSE, MkDate(2025, 1, 1)>>, <<2, 100, EXPENSE, Jan30>>,
              <<1, 0, EXPENSE, Jan30>>, <<1, 0 - 100, INCOME, Jan30>>}

UpdateArgs ==
    {<<TRUE, 100, TRUE, EXPENSE, TRUE, d>> : d \in Dates}
        \cup {<<TRUE, 250, TRUE, INCOME, TRUE, Jan30>>,
              <<TRUE, 250, TRUE, INCOME, TRUE, Feb1>>,
              <<TRUE, 100, TRUE, INCOME, TRUE, Jan30>>}
        \cup {<<FALSE, 0, FALSE, EXPENSE, FALSE, NoDate>>,
              <<TRUE, 250, FALSE, EXPENSE, FALSE, NoDate>>,
              <<FALSE, 0, TRUE, INCOME, FALSE, NoDate>>,
              <<FALSE, 0, FALSE, EXPENSE, TRUE, Feb1>>,
              <<TRUE, 0, TRUE, EXPENSE, TRUE, Jan30>>}

GetOrCreateArgs ==
    {<<1, 2024, 1>>, <<1, 2024, 2>>, <<1, 2024, 4>>, <<1, 2025, 1>>, <<1, 2025, 2>>,
     <<2, 2024, 1>>}

\* the optional monthlySalary argument of getOrCreateMonthlyBudget: <<given, value>>
GocSalaryArgs == {<<TRUE, 0>>, <<TRUE, 30000>>}

\* updateBudgetAmount(budgetAmount, isPercentage): fixed amounts, and percentages
\* at and around the bounds 0 and 100
BudgetAmountArgs ==
    (BudgetAmounts \X BOOLEAN) \cup {<<0 - 1, TRUE>>, <<10000, TRUE>>, <<10001, TRUE>>}

TxIdArgs == 1..2
BudgetIdArgs == 1..2

\* the calls of the runs: every argument on the first row of a table, a few on
\* the second
UpdateCalls ==
    ({1} \X UpdateArgs)
        \cup ({2} \X {<<TRUE, 250, TRUE, INCOME, TRUE, Feb1>>})

GetOrCreateCalls ==
    (GetOrCreateArgs \X {<<FALSE, 0>>})
        \cup ({<<1, 2024, 1>>} \X GocSalaryArgs)

BudgetAmountCalls ==
    ({1} \X BudgetAmountArgs) \cup ({2} \X {<<5000, TRUE>>})

SalaryCalls == ({1} \X Salaries) \cup {<<2, 30000>>}
LedgerStep(p) ==
    \/ CreateInsert(p)
    \/ UpdateFindBudget(p)
    \/ UpdateSave(p)
    \/ DeleteFindBudget(p)
    \/ DeleteRemove(p)
    \/ GocFind(p)
    \/ GocCreate(p)
    \/ BudgetSave(p)
    \/ UrbRead(p)
    \/ UrbSave(p)

Next ==
    \E p \in Procs :
        \/ \E x \in CreateArgs : ControllerCreate(p, x[1], x[2], x[3], x[4])
        \/ \E c \in UpdateCalls :
              ControllerUpdate(p, c[1], c[2][1], c[2][2], c[2][3], c[2][4], c[2][5], c[2][6])
        \/ \E i \in TxIdArgs : StartDelete(p, i)
        \/ \E c \in GetOrCreateCalls :
              StartGetOrCreate(p, c[1][1], c[1][2], c[1][3], c[2][1], c[2][2])
        \/ \E c \in SalaryCalls : StartUpdateMonthlySalary(p, c[1], c[2])
        \/ \E c \in BudgetAmountCalls :
              StartUpdateBudgetAmount(p, c[1], c[2][1], c[2][2])
        \/ \E b \in BudgetIdArgs : StartDeleteMonthlyBudget(p, b)
        \/ BudgetRemove(p)
        \/ LedgerStep(p)

Spec == Init /\ [][Next]_vars

\* Requests, one at a time, whose repository calls may fail: a few calls of
\* each operation, on rows that exist and on rows that do not.
FaultCreateArgs ==
    {<<1, 100, EXPENSE, Jan30>>, <<1, 100, INCOME, Jan30>>, <<1, 250, INCOME, Feb1>>,
     <<3, 100, EXPENSE, Jan30>>}

FaultUpdateArgs ==
    {<<TRUE, 250, TRUE, EXPENSE, TRUE, Jan30>>, <<TRUE, 100, TRUE, EXPENSE, TRUE, Feb1>>}

FaultBudgetAmountArgs == {<<2000, FALSE>>, <<10001, TRUE>>}

NextFault ==
    \E p \in Procs :
        \/ \E x \in FaultCreateArgs : StartCreate(p, x[1], x[2], x[3], x[4])
        \/ \E i \in TxIdArgs, x \in FaultUpdateArgs :
              StartUpdate(p, i, x[1], x[2], x[3], x[4], x[5], x[6])
        \/ \E i \in TxIdArgs : StartDelete(p, i)
        \/ StartGetOrCreate(p, 1, 2024, 2, FALSE, 0)
        \/ StartUpdateMonthlySalary(p, 1, 30000)
        \/ \E x \in FaultBudgetAmountArgs : StartUpdateBudgetAmount(p, 1, x[1], x[2])
        \/ StartDeleteMonthlyBudget(p, 1)
        \/ BudgetRemove(p)
        \/ LedgerStep(p)
        \/ PersistFail(p)

SpecFault == InitFault /\ [][NextFault]_vars

\* Overlapping requests of client 1.
ConcCreateArgs ==
    {<<1, 100, EXPENSE, Jan30>>, <<1, 250, EXPENSE, Jan30>>, <<1, 100, INCOME, Jan30>>,
     <<1, 100, EXPENSE, Feb1>>}

ConcUpdateArgs ==
    {<<TRUE, 250, TRUE, EXPENSE, TRUE, Jan30>>, <<TRUE, 100, TRUE, EXPENSE, TRUE, Feb1>>}

NextConc ==
    \E p \in Procs :
        \/ \E x \in ConcCreateArgs : StartCreate(p, x[1], x[2], x[3], x[4])
        \/ \E x \in ConcUpdateArgs : StartUpdate(p, 1, x[1], x[2], x[3], x[4], x[5], x[6])
        \/ StartDelete(p, 1)
        \/ \E m \in {1, 2} : StartGetOrCreate(p, 1, 2024, m, FALSE, 0)
        \/ StartUpdateMonthlySalary(p, 1, 30000)
        \/ \E isPct \in BOOLEAN : StartUpdateBudgetAmount(p, 1, 2000, isPct)
        \/ LedgerStep(p)

SpecConc == InitConc /\ [][NextConc]_vars

\* Calls of the services, one at a time, with descriptions, categories, ids of
\* rows that do not exist, and direct balance deltas.
Jan31 == MkDate(2024, 1, 31)

\* <<clientId, amount, type, date, description, categoryId>>: no category, the
\* client's category, a category that does not exist, another client's
\* category, a client that does not exist
DetailCreateArgs ==
    {<<1, 100, EXPENSE, Jan30, "taxi", 0>>,
     <<1, 250, INCOME, Jan30, "taxi", 1>>,
     <<1, 100, EXPENSE, Feb1, "taxi", 9>>,
     <<1, 100, EXPENSE, Feb1, "taxi", 2>>,
     <<3, 100, EXPENSE, Feb1, "taxi", 0>>}

\* <<hasAmount, amount, hasType, type, hasDate, date, hasDescription,
\*   description, categoryId>>
DetailUpdateArgs ==
    {<<FALSE, 0, FALSE, EXPENSE, FALSE, NoDate, TRUE, "dinner", 0>>,
     <<FALSE, 0, FALSE, EXPENSE, FALSE, NoDate, FALSE, "", 1>>,
     <<FALSE, 0, FALSE, EXPENSE, FALSE, NoDate, FALSE, "", 9>>,
     <<FALSE, 0, FALSE, EXPENSE, TRUE, Jan31, TRUE, "dinner", 1>>,
     <<TRUE, 250, FALSE, EXPENSE, FALSE, NoDate, FALSE, "", 0>>,
     <<FALSE, 0, TRUE, INCOME, FALSE, NoDate, TRUE, "dinner", 0>>,
     <<FALSE, 0, FALSE, EXPENSE, TRUE, Feb1, FALSE, "", 1>>}

\* <<budgetId, amount, isAddition>>
UrbCalls == {<<1, 100, TRUE>>, <<1, 250, FALSE>>, <<2, 100, TRUE>>}

NextDetail ==
    \E p \in Procs :
        \/ \E x \in DetailCreateArgs :
              StartCreateWith(p, x[1], x[2], x[3], x[4], x[5], x[6])
        \/ \E i \in TxIdArgs, x \in DetailUpdateArgs :
              StartUpdateWith(p, i, x[1], x[2], x[3], x[4], x[5], x[6], x[7], x[8], x[9])
        \/ \E i \in TxIdArgs : StartDelete(p, i)
        \/ \E c \in {1, 3} : StartGetOrCreate(p, c, 2024, 2, FALSE, 0)
        \/ \E b \in BudgetIdArgs : StartUpdateMonthlySalary(p, b, 30000)
        \/ \E b \in BudgetIdArgs : StartUpdateBudgetAmount(p, b, 5000, TRUE)
        \/ \E c \in UrbCalls : StartUpdateRemainingBalance(p, c[1], c[2], c[3])
        \/ LedgerStep(p)

SpecDetail == InitDetail /\ [][NextDetail]_vars

\* The requests of the README's example, one at a time and in any order, on a
\* month of 30 days: salary 5000.00, budget 60 %, lunch for 15.00, a bonus of
\* 500.00, and the removal of the first transaction.
Apr10 == MkDate(2024, 4, 10)

TraceStep(p) ==
    \/ CreateInsert(p)
    \/ DeleteFindBudget(p)
    \/ DeleteRemove(p)
    \/ GocFind(p)
    \/ GocCreate(p)
    \/ BudgetSave(p)
    \/ UrbRead(p)
    \/ UrbSave(p)

NextTrace ==
    \E p \in Procs :
        \/ StartGetOrCreate(p, 1, 2024, 4, FALSE, 0)
        \/ StartUpdateMonthlySalary(p, 1, 500000)
        \/ StartUpdateBudgetAmount(p, 1, 6000, TRUE)
        \/ StartCreate(p, 1, 1500, EXPENSE, Apr10)
        \/ StartCreate(p, 1, 50000, INCOME, Apr10)
        \/ StartDelete(p, 1)
        \/ TraceStep(p)

SpecTrace == InitTrace /\ [][NextTrace]_vars

----------------------------------------------------------------------------
(* Vocabulary of the properties *)

SameKey(b1, b2) ==
    /\ b1.clientId = b2.clientId
    /\ b1.year = b2.year
    /\ b1.month = b2.month

\* the request in slot p has returned successfully from operation op
Returned(p, op) ==
    /\ proc[p].pc = "done"
    /\ proc[p].op = op
    /\ proc[p].result = "ok"

\* what a transaction of this amount and type adds to a balance
Effect(amount, type) == IF type = INCOME THEN amount ELSE 0 - amount

\* remainingBalance of budget b in the tables tbl, 0 for a budget not there yet
BalanceIn(tbl, b) == IF b \in DOMAIN tbl THEN tbl[b].remainingBalance ELSE 0

----------------------------------------------------------------------------
(* Overlapping requests *)

\* C1: once N overlapping createDailyTransaction calls of type expense and
\* amount A on one existing budget with remainingBalance R have all returned,
\* the budget's remainingBalance is R - N*A.
C1_NoLostDelta ==
    \A b \in DOMAIN pre.budgets :
        (\A p \in Procs :
            /\ Returned(p, "create")
            /\ proc[p].type = EXPENSE
            /\ proc[p].amount = proc[1].amount
            /\ BudgetOf(proc[p]) = b)
        => budgets[b].remainingBalance =
               pre.budgets[b].remainingBalance - NProcs * proc[1].amount

\* C5: overlapping getOrCreateMonthlyBudget calls for one key leave at most one
\* budget row for that key, and all of them return that row.
C5_OneBudgetPerKey ==
    /\ \A b1, b2 \in DOMAIN budgets :
          SameKey(budgets[b1], budgets[b2]) => b1 = b2
    /\ \A p, q \in Procs :
          (/\ Returned(p, "getOrCreate")
           /\ Returned(q, "getOrCreate")
           /\ SameKey(proc[p].gocBudget, proc[q].gocBudget))
          => proc[p].gocBudget.id = proc[q].gocBudget.id

\* the row a budget request q makes of row
BudgetOpOn(q, row) ==
    IF proc[q].op = "updateBudgetAmount"
    THEN WithBudgetAmount(row, proc[q].amount, proc[q].isPercentage)
    ELSE WithSalary(row, proc[q].amount)

\* C6: a balance delta overlapping an updateBudgetAmount or updateMonthlySalary
\* on the same budget leaves the row that running the two one after the other,
\* in one of the two orders, leaves.
C6_SerializedPerBudget ==
    \A p, q \in Procs :
        (/\ Returned(p, "create")
         /\ BudgetOf(proc[p]) \in DOMAIN pre.budgets
         /\ Returned(q, "updateBudgetAmount") \/ Returned(q, "updateMonthlySalary")
         /\ proc[q].id = BudgetOf(proc[p]))
        => LET b == proc[q].id
               row == pre.budgets[b]
               delta(x) == ApplyDelta(x, proc[p].urbAmount, proc[p].urbAdd)
           IN  budgets[b] \in {BudgetOpOn(q, delta(row)), delta(BudgetOpOn(q, row))}

----------------------------------------------------------------------------
(* Failing repository calls *)

\* C2: an updateDailyTransaction that moves a transaction to another month and
\* fails leaves the budgets that existed and the transaction row as they were
\* before the call.
C2_MoveIsAtomic ==
    \A p \in Procs :
        (/\ proc[p].pc = "done"
         /\ proc[p].op = "update"
         /\ proc[p].monthChanged
         /\ proc[p].result = "500")
        => /\ \A b \in DOMAIN pre.budgets :
                 b \in DOMAIN budgets /\ budgets[b] = pre.budgets[b]
           /\ transactions = pre.transactions

\* C10: when createDailyTransaction has persisted its row and then fails, no
\* row stays whose effect is missing from its budget's remainingBalance.
C10_CreateIsAtomic ==
    \A p \in Procs :
        (/\ proc[p].pc = "done"
         /\ proc[p].op = "create"
         /\ proc[p].result = "500"
         /\ proc[p].transaction.id \in DOMAIN transactions)
        => LET t == proc[p].transaction
           IN  budgets[t.monthlyBudgetId].remainingBalance =
                   BalanceIn(pre.budgets, t.monthlyBudgetId) + Effect(t.amount, t.type)

----------------------------------------------------------------------------
(* Requests one at a time *)

RECURSIVE SumEffects(_)
SumEffects(ts) ==
    IF ts = {} THEN 0
    ELSE LET t == CHOOSE x \in ts : TRUE
         IN  Effect(transactions[t].amount, transactions[t].type) + SumEffects(ts \ {t})

\* the existing transactions that reference budget b
TransactionsOf(b) == {t \in DOMAIN transactions : transactions[t].monthlyBudgetId = b}

\* budgetAmount, or monthlySalary * budgetAmount / 100 when isPercentage
EffectiveBudgetAmount(budget) ==
    IF budget.isPercentage THEN PercentOf(budget.monthlySalary, budget.budgetAmount)
    ELSE budget.budgetAmount

BalanceMatchesLedger(b) ==
    budgets[b].remainingBalance =
        EffectiveBudgetAmount(budgets[b]) + SumEffects(TransactionsOf(b))

\* C3 as stated: between requests, every budget's remainingBalance is its
\* effective budget amount plus its income minus its expense transactions.
C3_BalanceMatchesLedger_Original ==
    Quiescent => \A b \in DOMAIN budgets : BalanceMatchesLedger(b)

\* C3 amended: between requests, every budget that was never re-based (by
\* updateBudgetAmount, or by updateMonthlySalary on a percentage budget with
\* budgetAmount > 0) while transactions referenced it has remainingBalance equal
\* to its effective budget amount plus its income minus its expense transactions.
C3_BalanceMatchesLedger ==
    Quiescent => \A b \in DOMAIN budgets \ rebased : BalanceMatchesLedger(b)

\* C3 witness: an update has returned, and a budget that was not re-based
\* carries transactions whose effects do not cancel
C3_Witness ==
    /\ Returned(1, "update")
    /\ \E b \in DOMAIN budgets \ rebased :
          /\ SumEffects(TransactionsOf(b)) # 0
          /\ EffectiveBudgetAmount(budgets[b]) # 0

\* C4: every transaction's monthlyBudgetId references an existing budget of the
\* transaction's client for the year and month of the transaction's date.
C4_BudgetMatchesDate ==
    \A t \in DOMAIN transactions :
        LET row == transactions[t]
        IN  /\ row.monthlyBudgetId \in DOMAIN budgets
            /\ budgets[row.monthlyBudgetId].clientId = row.clientId
            /\ budgets[row.monthlyBudgetId].year = row.date.y
            /\ budgets[row.monthlyBudgetId].month = row.date.m

\* C4 witness: an update has moved a transaction to the same month of another year
C4_Witness ==
    /\ Returned(1, "update")
    /\ proc[1].id \in DOMAIN transactions
    /\ transactions[proc[1].id].date.m = proc[1].original.date.m
    /\ transactions[proc[1].id].date.y # proc[1].original.date.y

\* C7: createDailyTransaction on a budget with remainingBalance R leaves R - A
\* (expense) or R + A (income) on the budget and as the row's snapshot; a
\* deleteDailyTransaction of that transaction directly afterwards removes the
\* row and leaves R on the budget.
C7_CreateDeleteRoundTrip ==
    /\ Returned(1, "create") =>
          LET t == proc[1].transaction
              after == BalanceIn(pre.budgets, t.monthlyBudgetId) + Effect(t.amount, t.type)
          IN  /\ budgets[t.monthlyBudgetId].remainingBalance = after
              /\ transactions[t.id].remainingBalanceAfterTransaction = after
    /\ (Returned(1, "delete") /\ lastOp.id = proc[1].id) =>
          /\ proc[1].id \notin DOMAIN transactions
          /\ budgets[lastOp.budgetId].remainingBalance = lastOp.balanceBefore

\* C7 witness: a transaction created on a budget with a non-zero balance has
\* been deleted by the next request
C7_Witness ==
    /\ Returned(1, "delete")
    /\ lastOp.id = proc[1].id
    /\ lastOp.balanceBefore # 0

\* C8: an updateDailyTransaction that supplies the stored amount, type and date
\* leaves the budget's remainingBalance and the row's
\* remainingBalanceAfterTransaction as they were.
C8_NoOpUpdate ==
    (/\ Returned(1, "update")
     /\ proc[1].hasAmount /\ proc[1].amount = proc[1].original.amount
     /\ proc[1].hasType /\ proc[1].type = proc[1].original.type
     /\ proc[1].hasDate /\ proc[1].date = proc[1].original.date)
    => LET t == proc[1].original
       IN  /\ budgets[t.monthlyBudgetId].remainingBalance =
                  pre.budgets[t.monthlyBudgetId].remainingBalance
           /\ transactions[t.id].remainingBalanceAfterTransaction =
                  t.remainingBalanceAfterTransaction

\* C9: an updateDailyTransaction that changes the date to another month takes
\* the original effect out of the old month's budget, creates the new month's
\* budget if there is none, applies the new amount and type to it, and makes
\* the row reference it.
C9_CrossMonthMove ==
    (Returned(1, "update") /\ proc[1].monthChanged) =>
        LET old == proc[1].original
            new == transactions[proc[1].id]
            target == new.monthlyBudgetId
        IN  /\ budgets[old.monthlyBudgetId].remainingBalance =
                   pre.budgets[old.monthlyBudgetId].remainingBalance
                       - Effect(old.amount, old.type)
            /\ target \in DOMAIN budgets
            /\ target # old.monthlyBudgetId
            /\ budgets[target].clientId = old.clientId
            /\ budgets[target].year = proc[1].date.y
            /\ budgets[target].month = proc[1].date.m
            /\ budgets[target].remainingBalance =
                   BalanceIn(pre.budgets, target) + Effect(NewAmount(proc[1]), NewType(proc[1]))

\* C9 witness: a move with a new amount and type into a month that had no budget
C9_Witness ==
    /\ Returned(1, "update")
    /\ proc[1].monthChanged
    /\ transactions[proc[1].id].monthlyBudgetId \notin DOMAIN pre.budgets
    /\ NewAmount(proc[1]) # proc[1].original.amount
    /\ NewType(proc[1]) # proc[1].original.type

----------------------------------------------------------------------------
(* Budget operations, one at a time *)

\* C11: in every state of the one-at-a-time runs, every budget's dailyBudget is
\* its effective budget amount (budgetAmount, or monthlySalary * budgetAmount /
\* 100 when isPercentage) divided by its daysInMonth, as the decimal(10,2)
\* column holds it.
C11_DailyBudget ==
    \A b \in DOMAIN budgets :
        budgets[b].dailyBudget =
            DailyBudgetOf(EffectiveBudgetAmount(budgets[b]), budgets[b].daysInMonth)

\* C11 witness: updateMonthlySalary has changed the salary of a percentage
\* budget whose budgetAmount is 0
C11_Witness ==
    /\ Returned(1, "updateMonthlySalary")
    /\ budgets[proc[1].id].isPercentage
    /\ budgets[proc[1].id].budgetAmount = 0
    /\ budgets[proc[1].id].monthlySalary # pre.budgets[proc[1].id].monthlySalary

\* C12: updateBudgetAmount(budgetId, amount, isPercentage) that returns stores
\* budgetAmount = amount and isPercentage, sets remainingBalance to the effective
\* amount (amount, or monthlySalary * amount / 100) and dailyBudget to that
\* amount divided by daysInMonth, whatever transactions reference the budget.
C12_UpdateBudgetAmount ==
    Returned(1, "updateBudgetAmount") =>
        LET old == pre.budgets[proc[1].id]
            effective == IF proc[1].isPercentage
                         THEN PercentOf(old.monthlySalary, proc[1].amount)
                         ELSE proc[1].amount
        IN  budgets[proc[1].id] =
                [old EXCEPT !.budgetAmount = proc[1].amount,
                            !.isPercentage = proc[1].isPercentage,
                            !.dailyBudget = DailyBudgetOf(effective, old.daysInMonth),
                            !.remainingBalance = effective]

\* C12 witness: updateBudgetAmount has returned on a budget whose transactions
\* had moved its balance away from the new effective amount
C12_Witness ==
    /\ Returned(1, "updateBudgetAmount")
    /\ SumEffects(TransactionsOf(proc[1].id)) # 0
    /\ pre.budgets[proc[1].id].remainingBalance # budgets[proc[1].id].remainingBalance
    /\ budgets[proc[1].id].remainingBalance = EffectiveBudgetAmount(budgets[proc[1].id])

\* C13: updateMonthlySalary(budgetId, s) that returns stores monthlySalary = s;
\* on a budget with isPercentage and budgetAmount > 0 it sets remainingBalance
\* to s * budgetAmount / 100 and dailyBudget to that divided by daysInMonth; on
\* every other budget it changes no other field.
C13_UpdateMonthlySalary ==
    Returned(1, "updateMonthlySalary") =>
        LET old == pre.budgets[proc[1].id]
            s == proc[1].amount
            effective == PercentOf(s, old.budgetAmount)
        IN  IF old.isPercentage /\ old.budgetAmount > 0
            THEN budgets[proc[1].id] =
                     [old EXCEPT !.monthlySalary = s,
                                 !.remainingBalance = effective,
                                 !.dailyBudget = DailyBudgetOf(effective, old.daysInMonth)]
            ELSE budgets[proc[1].id] = [old EXCEPT !.monthlySalary = s]

\* C13 witness: updateMonthlySalary has returned on a fixed-amount budget whose
\* budgetAmount is not 0, with a new salary
C13_Witness ==
    /\ Returned(1, "updateMonthlySalary")
    /\ ~budgets[proc[1].id].isPercentage
    /\ budgets[proc[1].id].budgetAmount > 0
    /\ budgets[proc[1].id].monthlySalary # pre.budgets[proc[1].id].monthlySalary
    /\ budgets[proc[1].id].monthlySalary > 0

\* C14: updateBudgetAmount on an existing budget with isPercentage = true fails
\* with status 400 and leaves the budget as it was when the amount is below 0
\* or above 100, and succeeds when the amount is in [0, 100], 0 and 100
\* included.
C14_PercentageRange ==
    (/\ proc[1].pc = "done"
     /\ proc[1].op = "updateBudgetAmount"
     /\ proc[1].id \in DOMAIN pre.budgets
     /\ proc[1].isPercentage)
    => IF proc[1].amount < 0 \/ proc[1].amount > 10000
       THEN proc[1].result = "400" /\ budgets = pre.budgets
       ELSE proc[1].result = "ok"

\* C14 witness: a percentage just above 100 has been refused
C14_Witness ==
    /\ proc[1].pc = "done"
    /\ proc[1].op = "updateBudgetAmount"
    /\ proc[1].isPercentage
    /\ proc[1].amount > 10000
    /\ proc[1].result = "400"
    /\ budgets = pre.budgets
    /\ budgets # <<>>

\* number of calendar days of month m (1..12) of year y
CalendarDays(y, m) ==
    LET leap == (y % 4 = 0 /\ y % 100 # 0) \/ y % 400 = 0
    IN  <<31, IF leap THEN 29 ELSE 28, 31, 30, 31, 30, 31, 31, 30, 31, 30, 31>>[m]

\* the budgets of the tables tbl with the key (clientId, year, month)
BudgetsIn(tbl, clientId, year, month) ==
    {b \in DOMAIN tbl :
        /\ tbl[b].clientId = clientId
        /\ tbl[b].year = year
        /\ tbl[b].month = month}

\* C15: getOrCreateMonthlyBudget(clientId, year, month) without a salary, on a
\* key that has no budget, creates exactly one budget, with monthlySalary = the
\* client's salary, budgetAmount = 0, isPercentage = false, dailyBudget = 0,
\* remainingBalance = 0 and daysInMonth = the number of calendar days of that
\* month, which is between 28 and 31.
C15_FreshBudgetDefaults ==
    (/\ Returned(1, "getOrCreate")
     /\ ~proc[1].gocHasSalary
     /\ BudgetsIn(pre.budgets, proc[1].gocClient, proc[1].gocYear, proc[1].gocMonth) = {})
    => LET r == proc[1]
           made == DOMAIN budgets \ DOMAIN pre.budgets
       IN  /\ Cardinality(made) = 1
           /\ made = BudgetsIn(budgets, r.gocClient, r.gocYear, r.gocMonth)
           /\ \A b \in made :
                 /\ budgets[b] =
                        [id |-> b, clientId |-> r.gocClient, year |-> r.gocYear,
                         month |-> r.gocMonth, monthlySalary |-> ClientSalary(r.gocClient),
                         budgetAmount |-> 0, isPercentage |-> FALSE, dailyBudget |-> 0,
                         remainingBalance |-> 0,
                         daysInMonth |-> CalendarDays(r.gocYear, r.gocMonth)]
                 /\ budgets[b].daysInMonth \in 28..31
                 /\ r.gocBudget = budgets[b]

\* C15 witness: a budget for a February has been created for a client who has a
\* salary
C15_Witness ==
    /\ Returned(1, "getOrCreate")
    /\ ~proc[1].gocHasSalary
    /\ proc[1].gocMonth = 2
    /\ proc[1].gocBudget.id \notin DOMAIN pre.budgets
    /\ proc[1].gocBudget.id \in DOMAIN budgets
    /\ budgets[proc[1].gocBudget.id].monthlySalary > 0

\* C16: one at a time, no two budgets share (clientId, year, month), and
\* getOrCreateMonthlyBudget on a key that has a budget returns that budget, with
\* the key asked for, and changes no budget, whatever salary is passed.
C16_GetOrCreateIsIdempotent ==
    /\ \A b1, b2 \in DOMAIN budgets : SameKey(budgets[b1], budgets[b2]) => b1 = b2
    /\ Returned(1, "getOrCreate") =>
          LET r == proc[1]
              had == BudgetsIn(pre.budgets, r.gocClient, r.gocYear, r.gocMonth)
          IN  /\ r.gocBudget.clientId = r.gocClient
              /\ r.gocBudget.year = r.gocYear
              /\ r.gocBudget.month = r.gocMonth
              /\ had # {} => /\ budgets = pre.budgets
                             /\ r.gocBudget.id \in had
                             /\ r.gocBudget = pre.budgets[r.gocBudget.id]

\* C16 witness: getOrCreateMonthlyBudget has been called with a salary on a key
\* whose budget holds a salary that is neither that one nor the client's
C16_Witness ==
    /\ Returned(1, "getOrCreate")
    /\ proc[1].gocHasSalary
    /\ proc[1].gocSalary # 0
    /\ proc[1].gocBudget.id \in DOMAIN pre.budgets
    /\ proc[1].gocBudget.monthlySalary \notin
           {proc[1].gocSalary, ClientSalary(proc[1].gocClient)}

----------------------------------------------------------------------------
(* Sums of expenses *)

\* the sum, over the transaction ids 1..n, of what each adds to the expenses of
\* a client in month (y, m), on day d or (d = 0) on any day: its amount if the
\* row exists, belongs to the client, is an expense and has such a date
RECURSIVE ExpensesUpTo(_, _, _, _, _)
ExpensesUpTo(n, clientId, y, m, d) ==
    IF n = 0 THEN 0
    ELSE ExpensesUpTo(n - 1, clientId, y, m, d)
         + (IF /\ n \in DOMAIN transactions
               /\ transactions[n].clientId = clientId
               /\ transactions[n].type = EXPENSE
               /\ transactions[n].date.y = y
               /\ transactions[n].date.m = m
               /\ d \in {0, transactions[n].date.d}
            THEN transactions[n].amount
            ELSE 0)

\* C17: in every state, getDailyTransactionsSumByDate(client, d) is the sum of
\* the amounts of the existing expense transactions of that client dated d, and
\* getDailyTransactionsSumByMonth(client, y, m) the sum of those dated in month
\* (y, m), first and last day included; income transactions, deleted
\* transactions and other clients' transactions add nothing.
C17_ExpenseSums ==
    \A c \in Clients :
        /\ \A date \in Dates :
              getDailyTransactionsSumByDate(c, date) =
                  ExpensesUpTo(nextTxId - 1, c, date.y, date.m, date.d)
        /\ \A date \in Dates :
              getDailyTransactionsSumByMonth(c, date.y, date.m) =
                  ExpensesUpTo(nextTxId - 1, c, date.y, date.m, 0)

\* C17 witness: client 1 has an expense on the last day of a month and an
\* income transaction in the same month
C17_Witness ==
    /\ Quiescent
    /\ \E t, u \in DOMAIN transactions :
          /\ transactions[t].clientId = 1
          /\ transactions[t].type = EXPENSE
          /\ transactions[t].date = MkDate(2024, 1, 31)
          /\ transactions[u].clientId = 1
          /\ transactions[u].type = INCOME
          /\ transactions[u].date.m = 1
    /\ getDailyTransactionsSumByMonth(1, 2024, 1) > 0

----------------------------------------------------------------------------
(* The README's example *)

\* C18: on a budget of a 30-day month with monthlySalary 5000.00,
\* updateBudgetAmount(60, percentage) leaves dailyBudget 100.00 and
\* remainingBalance 3000.00; from there an expense of 15.00 leaves
\* remainingBalance 2985.00 and snapshot 2985.00 on its row; from there an income
\* of 500.00 leaves remainingBalance 3485.00; from there deleting the expense of
\* 15.00 leaves remainingBalance 3500.00.
C18_EndToEndTrace ==
    LET r == proc[1]
        before == pre.budgets[1].remainingBalance
    IN  /\ (/\ Returned(1, "updateBudgetAmount")
             /\ pre.budgets[1].monthlySalary = 500000
             /\ pre.budgets[1].daysInMonth = 30)
            => /\ budgets[1].dailyBudget = 10000
               /\ budgets[1].remainingBalance = 300000
        /\ (Returned(1, "create") /\ r.type = EXPENSE /\ 1 \in DOMAIN pre.budgets
                /\ before = 300000)
            => /\ budgets[1].remainingBalance = 298500
               /\ transactions[r.id].remainingBalanceAfterTransaction = 298500
        /\ (Returned(1, "create") /\ r.type = INCOME /\ 1 \in DOMAIN pre.budgets
                /\ before = 298500)
            => budgets[1].remainingBalance = 348500
        /\ (Returned(1, "delete") /\ r.original.type = EXPENSE /\ before = 348500)
            => /\ budgets[1].remainingBalance = 350000
               /\ r.id \notin DOMAIN transactions

\* C18 witness: the whole example has run: the budget is at 60 % of 5000.00 with
\* dailyBudget 100.00, the lunch (snapshot 2985.00) has just been deleted at
\* balance 3485.00, and the bonus (snapshot 3485.00) is the only row left
C18_Witness ==
    /\ Returned(1, "delete")
    /\ proc[1].original.remainingBalanceAfterTransaction = 298500
    /\ pre.budgets[1].remainingBalance = 348500
    /\ budgets[1].remainingBalance = 350000
    /\ budgets[1].dailyBudget = 10000
    /\ budgets[1].budgetAmount = 6000
    /\ DOMAIN transactions = {2}
    /\ transactions[2].type = INCOME
    /\ transactions[2].remainingBalanceAfterTransaction = 348500

----------------------------------------------------------------------------
(* Lifetime of a budget *)

\* C19: no step removes a budget, except a step of a deleteMonthlyBudget called
\* on that budget: creating, updating (moving) and deleting transactions,
\* updateMonthlySalary and updateBudgetAmount leave every budget in place.
C19_BudgetsStay ==
    [][\A b \in DOMAIN budgets :
          \/ b \in DOMAIN budgets'
          \/ \E p \in Procs : proc[p].op = "deleteMonthlyBudget" /\ proc[p].id = b]_vars

\* C19 witness: deleteDailyTransaction has removed the last transaction of a
\* budget, and the budget is there
C19_Witness ==
    /\ Returned(1, "delete")
    /\ proc[1].original.monthlyBudgetId \in DOMAIN budgets
    /\ TransactionsOf(proc[1].original.monthlyBudgetId) = {}

----------------------------------------------------------------------------
(* Amounts *)

\* C20: a create or an update of a transaction with an amount of 0 or less is
\* refused with status 400 and changes no budget and no transaction row; every
\* existing transaction has an amount above 0.
C20_PositiveAmounts ==
    /\ \A p \in Procs :
          (/\ proc[p].pc = "done"
           /\ proc[p].op = "create" \/ (proc[p].op = "update" /\ proc[p].hasAmount)
           /\ proc[p].amount <= 0)
          => /\ proc[p].result = "400"
             /\ budgets = pre.budgets
             /\ transactions = pre.transactions
    /\ \A t \in DOMAIN transactions : transactions[t].amount > 0

\* C20 witness: an update of an existing transaction to an amount of 0 has been
\* refused
C20_Witness ==
    /\ proc[1].pc = "done"
    /\ proc[1].op = "update"
    /\ proc[1].hasAmount
    /\ proc[1].amount = 0
    /\ proc[1].result = "400"
    /\ transactions # <<>>
    /\ transactions = pre.transactions

----------------------------------------------------------------------------
(* Missing rows *)

\* the request in slot p names a row that does not exist
NamesMissingRow(p) ==
    LET r == proc[p]
    IN  \/ r.op = "create" /\ r.clientId \notin Clients
        \/ r.op = "create" /\ r.categoryId # 0 /\ r.categoryId \notin Categories
        \/ r.op = "getOrCreate" /\ r.gocClient \notin Clients
        \/ r.op \in {"update", "delete"} /\ r.id \notin DOMAIN pre.transactions
        \/ /\ r.op \in {"updateMonthlySalary", "updateBudgetAmount", "updateRemainingBalance"}
           /\ r.id \notin DOMAIN pre.budgets

\* C21: a call that names a client, category, transaction or budget that does
\* not exist ends with status 404, and a call that ends with status 404 has
\* changed no budget and no transaction.
C21_NotFoundChangesNothing ==
    \A p \in Procs :
        proc[p].pc = "done" =>
            /\ NamesMissingRow(p) => proc[p].result = "404"
            /\ proc[p].result = "404" =>
                  /\ budgets = pre.budgets
                  /\ transactions = pre.transactions

\* C21 witness: createDailyTransaction with a category that does not exist, for
\* a month that has no budget, has been refused
C21_Witness ==
    /\ proc[1].pc = "done"
    /\ proc[1].op = "create"
    /\ proc[1].clientId \in Clients
    /\ proc[1].categoryId \notin Categories \cup {0}
    /\ BudgetsIn(budgets, proc[1].clientId, proc[1].date.y, proc[1].date.m) = {}
    /\ proc[1].result = "404"

----------------------------------------------------------------------------
(* Snapshots *)

\* C22: after an updateDailyTransaction, one at a time, that changes amount,
\* type or month, the row's remainingBalanceAfterTransaction is the
\* remainingBalance its budget has once the new effect is applied, whether the
\* row stayed in its budget or moved to another month's.
C22_SnapshotAfterUpdate ==
    (/\ Returned(1, "update")
     /\ \/ NewAmount(proc[1]) # proc[1].original.amount
        \/ NewType(proc[1]) # proc[1].original.type
        \/ proc[1].monthChanged)
    => LET row == transactions[proc[1].id]
       IN  row.remainingBalanceAfterTransaction =
               budgets[row.monthlyBudgetId].remainingBalance

\* C23: under any interleaving with other requests on the same budget, the
\* remainingBalanceAfterTransaction that createDailyTransaction stored on its
\* new row is the budget's remainingBalance in the state reached by the step
\* that applies that transaction's delta to the budget.
C23_SnapshotOfCreate ==
    [][\A p \in Procs :
          (/\ proc[p].op = "create"
           /\ proc[p].pc = "urb_save"
           /\ proc'[p].pc = "done"
           /\ \A q \in Procs : proc[q].op \in {"none", "create", "update", "delete"})
          => budgets'[proc[p].urbId].remainingBalance =
                 proc[p].transaction.remainingBalanceAfterTransaction]_vars

----------------------------------------------------------------------------
(* Frames *)

\* C24: a returned updateDailyTransaction, one at a time, left every field the
\* request omitted as it was stored; when the request had no amount, no type
\* and no date of another month, every budget and the row's
\* remainingBalanceAfterTransaction, amount, type and monthlyBudgetId are as
\* before the call.
C24_OmittedFieldsKept ==
    Returned(1, "update") =>
        LET r == proc[1]
            row == transactions[r.id]
            old == pre.transactions[r.id]
        IN  /\ ~r.hasAmount => row.amount = old.amount
            /\ ~r.hasType => row.type = old.type
            /\ ~r.hasDate => row.date = old.date
            /\ ~r.hasDescription => row.description = old.description
            /\ r.categoryId = 0 => row.categoryId = old.categoryId
            /\ (~r.hasAmount /\ ~r.hasType /\ ~MonthChanged(r.hasDate, r.date, old.date))
                  => /\ budgets = pre.budgets
                     /\ row.remainingBalanceAfterTransaction =
                            old.remainingBalanceAfterTransaction
                     /\ row.amount = old.amount
                     /\ row.type = old.type
                     /\ row.monthlyBudgetId = old.monthlyBudgetId

\* C24 witness: an update with a description, a category and a date of the
\* same month, and nothing else, has returned and changed all three
C24_Witness ==
    /\ Returned(1, "update")
    /\ ~proc[1].hasAmount
    /\ ~proc[1].hasType
    /\ proc[1].hasDate
    /\ proc[1].hasDescription
    /\ proc[1].categoryId # 0
    /\ transactions[proc[1].id].description # pre.transactions[proc[1].id].description
    /\ transactions[proc[1].id].categoryId # pre.transactions[proc[1].id].categoryId
    /\ transactions[proc[1].id].date # pre.transactions[proc[1].id].date
    /\ budgets = pre.budgets

\* C25: updateRemainingBalance(budgetId, amount, isAddition), one at a time,
\* adds amount to the remainingBalance of the named budget when isAddition and
\* subtracts it otherwise; every other field of that budget, every other
\* budget and every transaction are as before the call.
C25_DeltaOnly ==
    Returned(1, "updateRemainingBalance") =>
        LET r == proc[1]
        IN  /\ r.urbId \in DOMAIN pre.budgets
            /\ budgets =
                  [pre.budgets EXCEPT ![r.urbId].remainingBalance =
                      IF r.urbAdd THEN @ + r.urbAmount ELSE @ - r.urbAmount]
            /\ transactions = pre.transactions

\* C25 witness: a subtraction has returned for a budget that has a
\* transaction, next to another budget
C25_Witness ==
    /\ Returned(1, "updateRemainingBalance")
    /\ ~proc[1].urbAdd
    /\ budgets[proc[1].urbId].remainingBalance =
          pre.budgets[proc[1].urbId].remainingBalance - proc[1].urbAmount
    /\ \E t \in DOMAIN transactions : transactions[t].monthlyBudgetId = proc[1].urbId
    /\ \E b \in DOMAIN budgets : b # proc[1].urbId

----------------------------------------------------------------------------
(* The salary of a new budget *)

\* C26: the budget that a getOrCreateMonthlyBudget call has created holds the
\* salary the call supplied, 0 included, and the client's salary only when
\* the call supplied none.
C26_SuppliedSalaryStored ==
    (/\ Returned(1, "getOrCreate")
     /\ proc[1].gocBudget.id \notin DOMAIN pre.budgets)
    => budgets[proc[1].gocBudget.id].monthlySalary =
           IF proc[1].gocHasSalary THEN proc[1].gocSalary
           ELSE ClientSalary(proc[1].gocClient)

----------------------------------------------------------------------------
(* Errors reaching the caller *)

\* C27 as stated: whatever error is raised inside a budget or ledger
\* operation, a failure of a repository call or a business error, is the
\* error the caller receives.
C27_ErrorsSurfaceUnchanged ==
    \A p \in Procs :
        (proc[p].pc = "done" /\ proc[p].raised # "none")
            => proc[p].result = proc[p].raised

\* C27 amended: a business error (an AppError with status 400, 403 or 404)
\* raised inside a budget or ledger operation is the error the caller
\* receives; a failure of a repository call reaches the caller as an AppError
\* with status 500 in place of the error the repository threw; no raised
\* error ends in success.
C27_ErrorsSurfaceAsAppError ==
    \A p \in Procs :
        (proc[p].pc = "done" /\ proc[p].raised # "none")
            => /\ proc[p].raised \in {"400", "403", "404"}
                    => proc[p].result = proc[p].raised
               /\ proc[p].raised = QueryFailedError => proc[p].result = "500"
               /\ proc[p].result \in AppErrors

\* C27 witness: the removal of the row failed in a deleteDailyTransaction
\* whose reversal was saved, and the caller received status 500
C27_Witness ==
    /\ proc[1].pc = "done"
    /\ proc[1].op = "delete"
    /\ proc[1].raised = QueryFailedError
    /\ proc[1].result = "500"
    /\ budgets # pre.budgets

----------------------------------------------------------------------------
(* Two mutations of one transaction *)

\* what the update or delete request r, run last on a transaction of the
\* month of date, leaves of that transaction in the month's budget
LeftInMonth(r, date) ==
    IF r.op = "update" /\ ~MonthChanged(r.hasDate, r.date, date)
    THEN Effect(r.amount, r.type)
    ELSE 0

\* C28: when two overlapping requests, each a deleteDailyTransaction or a
\* complete updateDailyTransaction of the same stored transaction, have both
\* finished, the remainingBalance of the transaction's budget differs from its
\* value before the calls by the transaction's original effect taken back
\* once, plus what one of the two serial orders leaves in that budget: nothing
\* when one of them is a delete, else the new effect of the update that ran
\* last if it keeps the transaction in the month.
C28_ReversedOnce ==
    \A p, q \in Procs :
        (/\ p # q
         /\ concurrent
         /\ 1 \in DOMAIN pre.transactions
         /\ \A x \in {p, q} :
               /\ proc[x].pc = "done"
               /\ proc[x].id = 1
               /\ \/ proc[x].op = "delete"
                  \/ /\ proc[x].op = "update"
                     /\ proc[x].hasAmount /\ proc[x].hasType /\ proc[x].hasDate)
        => LET old == pre.transactions[1]
               b == old.monthlyBudgetId
               reversed == 0 - Effect(old.amount, old.type)
               change == budgets[b].remainingBalance - pre.budgets[b].remainingBalance
           IN  IF proc[p].op = "delete" \/ proc[q].op = "delete"
               THEN change = reversed
               ELSE change \in {reversed + LeftInMonth(proc[p], old.date),
                                reversed + LeftInMonth(proc[q], old.date)}

----------------------------------------------------------------------------
(* A removal that fails *)

\* C29: when a deleteDailyTransaction, one at a time, has ended in an error
\* and its transaction row is still stored, the remainingBalance of every
\* budget is what it was before the call.
C29_FailedDeleteKeepsBalance ==
    (/\ proc[1].pc = "done"
     /\ proc[1].op = "delete"
     /\ proc[1].result # "ok"
     /\ proc[1].id \in DOMAIN transactions)
    => \A b \in DOMAIN pre.budgets :
          /\ b \in DOMAIN budgets
          /\ budgets[b].remainingBalance = pre.budgets[b].remainingBalance

----------------------------------------------------------------------------
(* What a ledger operation leaves alone *)

\* the <<year, month>> of the transaction that the finished ledger request r
\* was about: before the call (none for a create) and after it
OldMonthOf(r) ==
    IF r.op \in {"update", "delete"} /\ r.id \in DOMAIN pre.transactions
    THEN {<<pre.transactions[r.id].date.y, pre.transactions[r.id].date.m>>}
    ELSE {}

NewMonthOf(r) ==
    IF r.op = "create" \/ (r.op = "update" /\ r.hasDate)
    THEN {<<r.date.y, r.date.m>>}
    ELSE {}

\* C30: after a createDailyTransaction, updateDailyTransaction or
\* deleteDailyTransaction, one at a time, every other transaction row is
\* stored as before the call, its remainingBalanceAfterTransaction included,
\* and every budget of another client or of a month that is neither the old
\* nor the new month of the transaction is as before the call; a budget the
\* call created is the one of the client's new month.
C30_OthersUntouched ==
    (proc[1].pc = "done" /\ proc[1].op \in {"create", "update", "delete"})
    => LET r == proc[1]
           months == OldMonthOf(r) \cup NewMonthOf(r)
       IN  /\ \A t \in DOMAIN pre.transactions :
                 t # r.id => /\ t \in DOMAIN transactions
                             /\ transactions[t] = pre.transactions[t]
           /\ \A b \in DOMAIN pre.budgets :
                 (\/ pre.budgets[b].clientId # r.clientId
                  \/ <<pre.budgets[b].year, pre.budgets[b].month>> \notin months)
                 => /\ b \in DOMAIN budgets
                    /\ budgets[b] = pre.budgets[b]
           /\ \A b \in DOMAIN budgets :
                 b \notin DOMAIN pre.budgets
                 => /\ budgets[b].clientId = r.clientId
                    /\ <<budgets[b].year, budgets[b].month>> \in NewMonthOf(r)

\* C30 witness: an update has changed the balance of a budget that holds
\* another transaction, whose snapshot is not that balance, while a budget of
\* another month exists
C30_Witness ==
    /\ Returned(1, "update")
    /\ \E t \in DOMAIN pre.transactions :
          /\ t # proc[1].id
          /\ LET b == pre.transactions[t].monthlyBudgetId
             IN  /\ pre.transactions[proc[1].id].monthlyBudgetId = b
                 /\ budgets[b].remainingBalance # pre.budgets[b].remainingBalance
                 /\ transactions[t].remainingBalanceAfterTransaction #
                        budgets[b].remainingBalance
    /\ \E b \in DOMAIN budgets :
          b # pre.transactions[proc[1].id].monthlyBudgetId

====
